---- MODULE Spec2Model ----
(***************************************************************************)
(* FinSolvers RAG policy question answering: the document pipeline of      *)
(* rag_policy_qa.py (PDFProcessor, EmbeddingEngine, LLMReasoningEngine,    *)
(* RAGPolicyQA) and the Flask front end of flask_app.py, as a state        *)
(* machine.  Every request runs on a thread and advances one source        *)
(* statement (or one loop iteration) at a time, so that the interleavings  *)
(* of a threaded server are behaviours of the model.                       *)
(***************************************************************************)
EXTENDS Integers, Sequences, FiniteSets, TLC

\* ------------------------------------------------------------------ bounds
\* the longest ranked hit list a direct caller of generate_response passes
MaxHits == 4
\* process_query is not called once the history holds this many entries
MaxHistory == 1
\* in the runs that fill the history, no query is begun once this many
\* entries have been stamped
MaxClock == 52
\* the most sentences of a page text handed to _split_text_into_chunks
MaxSentences == 3

\* ------------------------------------------------------- program constants
\* rag_policy_qa.py:163  chunks shorter than this after strip() are skipped
MinChunkLen == 50
\* rag_policy_qa.py:540  default top_k of RAGPolicyQA.query
DefaultTopK == 5
\* rag_policy_qa.py:473  number of hits cited by the fallback
MaxCitations == 3
\* rag_policy_qa.py:475  clause_text is cut at this many characters
ClauseTextLen == 200
\* rag_policy_qa.py:455  plausible amount range of the fallback
MinAmount == 100
MaxAmount == 10000000
\* flask_app.py:141  the history keeps the last 50 entries
HistoryCap == 50
\* rag_policy_qa.py:110  PDFProcessor.chunk_size
ChunkSize == 500
\* rag_policy_qa.py:111  PDFProcessor.overlap
Overlap == 50

\* ------------------------------------------------------------ option type
\* Python's None is the empty tuple, a present value x is <<x>>.
NoneV == <<>>
Some(x) == <<x>>
IsNone(o) == o = <<>>
Get(o) == o[1]

Threads == {"t1", "t2"}
\* the thread that serves the load requests, the thread that serves the queries
Loaders == {"t1"}
Askers == {"t2"}

Min(a, b) == IF a <= b THEN a ELSE b
Max(a, b) == IF a >= b THEN a ELSE b

\* ------------------------------------------------------------- documents
\* The PDF files a caller can name.  X.pdf cannot be opened (missing or
\* unreadable: extract_text_from_pdf raises); E.pdf opens and holds only
\* whitespace and text too short to make a chunk.
Docs == {"A.pdf", "B.pdf", "E.pdf", "X.pdf"}

Readable(d) == d # "X.pdf"

\* A line of page text: its stripped content, its length, str.isupper().
Line(s, n, up) == [s |-> s, n |-> n, upper |-> up]

\* A page: whether get_text() is blank, its lines, and the chunk texts
\* _split_text_into_chunks returns for it.
PageOf(blank, lines, cands) == [blank |-> blank, lines |-> lines, page_chunks |-> cands]

Pages(d) ==
    CASE d = "A.pdf" ->
           << PageOf(FALSE, <<Line("COVERAGE", 8, TRUE), Line("body", 150, FALSE)>>, <<"a1", "a2">>),
              PageOf(TRUE, <<>>, <<>>),
              PageOf(FALSE, <<Line("more body", 50, FALSE)>>, <<"a3">>) >>
      [] d = "B.pdf" ->
           << PageOf(FALSE, <<Line("EXCL", 4, TRUE), Line("body", 260, FALSE)>>, <<"b1">>) >>
      [] d = "E.pdf" ->
           << PageOf(TRUE, <<>>, <<>>),
              PageOf(FALSE, <<Line("short", 49, FALSE)>>, <<"e1">>) >>
      [] OTHER -> <<>>

\* len(chunk_text.strip()) of each chunk text
TextLen(t) ==
    CASE t = "a1" -> 120
      [] t = "a2" -> 30
      [] t = "a3" -> 50
      [] t = "b1" -> 260
      [] t = "e1" -> 49
      [] t = "c200" -> ClauseTextLen
      [] t = "c201" -> ClauseTextLen + 1
      [] OTHER -> 0

\* rag_policy_qa.py:451  what re.findall returns for a chunk text: the digit
\* groups (digits and commas) the pattern captures, as character sequences.
\* a1 reads "claim amount is Rs. 15,000 ... penalty is Rs. 500"; a lone comma
\* of the prose is a match too.
TextMatches(t) ==
    CASE t = "a1" -> { <<"1", "5", ",", "0", "0", "0">>, <<"5", "0", "0">>, <<",">> }
      [] t = "a3" -> { <<"9", "9">> }
      [] t = "b1" -> { <<"2", "0", ",", "0", "0", "0", ",", "0", "0", "0">>,
                       <<"2", ",", "5", "0", "0">> }
      [] t = "c200" -> { <<"1", "0", "0">> }
      [] t = "c201" -> { <<"1", ",", "0", "0", ",", "0", "0", ",", "0", "0", "0">>,
                         <<"1", "0", "0", "0", "0", "0", "0", "1">> }
      [] OTHER -> {}

Digits == <<"0", "1", "2", "3", "4", "5", "6", "7", "8", "9">>

DigitValue(c) == (CHOOSE i \in 1..Len(Digits) : Digits[i] = c) - 1

\* match.replace(',', '')
RECURSIVE RemoveCommas(_)
RemoveCommas(m) ==
    IF m = <<>> THEN <<>>
    ELSE IF Head(m) = "," THEN RemoveCommas(Tail(m))
         ELSE <<Head(m)>> \o RemoveCommas(Tail(m))

RECURSIVE DigitsValue(_)
DigitsValue(ds) ==
    IF ds = <<>> THEN 0
    ELSE DigitsValue(SubSeq(ds, 1, Len(ds) - 1)) * Len(Digits) + DigitValue(ds[Len(ds)])

\* rag_policy_qa.py:453-458  float(match.replace(',', '')): None when float
\* raises ValueError (nothing is left of the match), which the loop skips
ParseAmount(m) ==
    IF RemoveCommas(m) = <<>> THEN NoneV ELSE Some(DigitsValue(RemoveCommas(m)))

\* the chunk texts of the model
ChunkTexts == {"a1", "a2", "a3", "b1", "e1", "c200", "c201"}

\* rag_policy_qa.py:451-458  per chunk text, the numbers parsed from its matches
ParsedAmounts ==
    [t \in ChunkTexts |->
        {Get(ParseAmount(m)) : m \in {x \in TextMatches(t) : ~IsNone(ParseAmount(x))}}]

\* the numbers parsed from the matches of a chunk text
TextAmounts(t) == ParsedAmounts[t]

\* rag_policy_qa.py:465
RejectionKeywords == {"excluded", "not covered", "rejected", "denied", "invalid"}

\* the places of a chunk text where a keyword could match, as written
TextPhrases(t) ==
    CASE t = "b1" -> {"is Not Covered"}
      [] t = "c200" -> {"covered", "valid"}
      [] t = "c201" -> {"EXCLUDED"}
      [] OTHER -> {}

\* str.lower()
Lower(p) ==
    CASE p = "is Not Covered" -> "is not covered"
      [] p = "EXCLUDED" -> "excluded"
      [] OTHER -> p

\* `keyword in text`: the keyword is a substring of the (lower-cased) place
Contains(p, keyword) ==
    \/ p = keyword
    \/ p = "is not covered" /\ keyword = "not covered"

\* rag_policy_qa.py:467  the chunk texts for which
\* any(keyword in chunk.text.lower() for keyword in rejection_keywords)
RejectingTexts ==
    {t \in ChunkTexts :
        \E p \in TextPhrases(t), keyword \in RejectionKeywords : Contains(Lower(p), keyword)}

TextHasRejection(t) == t \in RejectingTexts

\* model.encode of a chunk text: a vector of dimension 2
TextVec(t) ==
    CASE t = "a1" -> <<2, 0>>
      [] t = "a3" -> <<0, 2>>
      [] t = "b1" -> <<1, 1>>
      [] OTHER -> <<0, 0>>

\* ---------------------------------------------------------------- queries
\* A query text is a sequence of characters.
QueryTexts == { <<>>, <<" ">>, <<" ", "a">> }

\* the top_k values the callers of query pass
Ks == {-1, 0, DefaultTopK}

\* the top_k values a direct caller of semantic_search passes
EngineKs == Ks \cup {1, 2}

RECURSIVE LStrip(_)
LStrip(s) == IF s # <<>> /\ Head(s) = " " THEN LStrip(Tail(s)) ELSE s

RECURSIVE RStrip(_)
RStrip(s) ==
    IF s # <<>> /\ s[Len(s)] = " " THEN RStrip(SubSeq(s, 1, Len(s) - 1)) ELSE s

\* str.strip()
Strip(s) == RStrip(LStrip(s))

Count(s, c) == Cardinality({i \in 1..Len(s) : s[i] = c})

\* model.encode of a query text
QueryVec(q) == <<Count(q, "a"), Count(q, "b")>>

\* ------------------------------------------------- PDFProcessor (pure part)
\* rag_policy_qa.py:150-157  the section of a page: "General", replaced by
\* every line with 5 < len < 100 that is upper-case, the last one winning.
RECURSIVE SectionFrom(_, _)
SectionFrom(lines, current_section) ==
    IF lines = <<>> THEN current_section
    ELSE LET line == Head(lines)
         IN  SectionFrom(Tail(lines),
                 IF line.n > 5 /\ line.upper /\ line.n < 100
                 THEN line.s ELSE current_section)

\* A page text, for the splitter, is its sentences (what re.split returns
\* for the whitespace-normalised text, each stripped); a sentence is its
\* words, none for an empty string; a word is its place and its length.
\* The sentences a page can be made of, as the lengths of their words:
SentenceShapes ==
    { <<>>, <<20>>, <<100>>, <<249>>, <<250>>, <<501>>,
      <<40, 40, 40, 40, 40, 40, 40, 40, 40, 40, 40, 40>> }

PageTexts == UNION { [1..n -> SentenceShapes] : n \in 0..MaxSentences }

\* the sentences of a page text, every word with its place
Sentences(text) ==
    [i \in 1..Len(text) |-> [j \in 1..Len(text[i]) |-> [s |-> i, w |-> j, n |-> text[i][j]]]]

RECURSIVE SumLen(_)
SumLen(ws) == IF ws = <<>> THEN 0 ELSE Head(ws).n + SumLen(Tail(ws))

\* len() of words joined by single spaces
StrLen(ws) == IF ws = <<>> THEN 0 ELSE SumLen(ws) + Len(ws) - 1

\* rag_policy_qa.py:224-225  words[-self.overlap//5:] if there are more words
\* than overlap//5, else all the words
OverlapWords(words) ==
    IF Len(words) > Overlap \div 5
    THEN SubSeq(words, Len(words) - (Overlap \div 5) + 1, Len(words))
    ELSE words

\* rag_policy_qa.py:215-232  the loop over the sentences from sentence i on,
\* then the last chunk
RECURSIVE SplitFrom(_, _, _, _)
SplitFrom(sentences, i, current_chunk, out) ==
    IF i > Len(sentences)
    THEN IF current_chunk # <<>> THEN Append(out, current_chunk) ELSE out
    ELSE LET sentence == sentences[i]
         IN  IF sentence = <<>>
             THEN SplitFrom(sentences, i + 1, current_chunk, out)
             ELSE IF StrLen(current_chunk) + StrLen(sentence) > ChunkSize
                     /\ current_chunk # <<>>
                  THEN SplitFrom(sentences, i + 1, OverlapWords(current_chunk) \o sentence,
                                 Append(out, current_chunk))
                  ELSE SplitFrom(sentences, i + 1, current_chunk \o sentence, out)

\* rag_policy_qa.py:192-232  _split_text_into_chunks: the chunks, each the
\* sequence of its words
split_text_into_chunks(text) == SplitFrom(Sentences(text), 1, <<>>, <<>>)

DocumentChunk(text, page_number, section, filename, chunk_id) ==
    [text |-> text, page_number |-> page_number, section |-> section,
     filename |-> filename, chunk_id |-> chunk_id, embedding |-> NoneV]

\* the chunks of one page without the test of their length
RECURSIVE PageChunksKeepAll(_, _, _, _)
PageChunksKeepAll(d, page_num, section, i) ==
    LET cands == Pages(d)[page_num].page_chunks
    IN  IF i > Len(cands) THEN <<>>
        ELSE <<DocumentChunk(cands[i], page_num, section, d, <<d, page_num, i>>)>>
             \o PageChunksKeepAll(d, page_num, section, i + 1)

\* rag_policy_qa.py:162-175  the chunks of one page from candidate i on
RECURSIVE PageChunksFrom(_, _, _, _)
PageChunksFrom(d, page_num, section, i) ==
    LET cands == Pages(d)[page_num].page_chunks
    IN  IF i > Len(cands) THEN <<>>
        ELSE IF TextLen(cands[i]) < MinChunkLen
             THEN PageChunksFrom(d, page_num, section, i + 1)
             ELSE <<DocumentChunk(cands[i], page_num, section, d, <<d, page_num, i>>)>>
                  \o PageChunksFrom(d, page_num, section, i + 1)

\* rag_policy_qa.py:143-175  the chunks of pages page_num.. of document d
RECURSIVE ChunksFromPage(_, _)
ChunksFromPage(d, page_num) ==
    IF page_num > Len(Pages(d)) THEN <<>>
    ELSE LET pg == Pages(d)[page_num]
         IN  IF pg.blank THEN ChunksFromPage(d, page_num + 1)
             ELSE PageChunksFrom(d, page_num, SectionFrom(pg.lines, "General"), 1)
                  \o ChunksFromPage(d, page_num + 1)

\* the value extract_text_from_pdf returns for a readable document
extract_text_from_pdf(d) == ChunksFromPage(d, 1)

\* ----------------------------------------------- EmbeddingEngine (pure part)
\* rag_policy_qa.py:266-269  one vector per chunk text, in order
EncodeChunks(chs) == [i \in 1..Len(chs) |-> TextVec(chs[i].text)]

\* sklearn's cosine_similarity of two vectors, as their scaled dot product
cosine_similarity(u, v) == u[1] * v[1] + u[2] * v[2]

\* rag_policy_qa.py:298  the score of every stored row against the query
Similarities(q, emb) == [i \in 1..Len(emb) |-> cosine_similarity(QueryVec(q), emb[i])]

\* np.argsort: the permutations of the indices that put the values in
\* ascending order (the order among equal values is not specified)
ArgSort(s) ==
    {p \in [1..Len(s) -> 1..Len(s)] :
        /\ \A i, j \in 1..Len(s) : i # j => p[i] # p[j]
        /\ \A i, j \in 1..Len(s) : i < j => s[p[i]] <= s[p[j]]}

\* seq[::-1]
Reverse(s) == [i \in 1..Len(s) |-> s[Len(s) + 1 - i]]

\* seq[:k], Python slicing: a negative k counts from the end
SliceTo(s, k) ==
    IF k >= 0 THEN SubSeq(s, 1, Min(k, Len(s)))
    ELSE SubSeq(s, 1, Max(Len(s) + k, 0))

\* rag_policy_qa.py:301  np.argsort(similarities)[::-1][:top_k]
TopIndices(s, k) == {SliceTo(Reverse(p), k) : p \in ArgSort(s)}

\* the guard of semantic_search without its test of self.embeddings
NoChunksOnly(emb, chs) == Len(chs) = 0

\* rag_policy_qa.py:289  the guard of semantic_search
NoEmbeddingsAvailable(emb, chs) == IsNone(emb) \/ Len(chs) = 0

\* ------------------------------------------- LLMReasoningEngine (pure part)
QueryResult(decision, amount, justification, clause_mapping) ==
    [decision |-> decision, amount |-> amount, justification |-> justification,
     clause_mapping |-> clause_mapping]

\* rag_policy_qa.py:561-566  the result of query when search returns nothing
NoClausesResult == QueryResult("rejected", NoneV, <<"no_relevant_clauses">>, <<>>)

SetMax(S) == CHOOSE x \in S : \A y \in S : y <= x

\* the amounts in range found in the cited chunks only
FallbackAmountsCited(hits) ==
    UNION {{a \in TextAmounts(hits[i].chunk.text) : MinAmount <= a /\ a <= MaxAmount}
           : i \in 1..Min(MaxCitations, Len(hits))}

\* rag_policy_qa.py:448-458  the amounts in range found in the ranked chunks
FallbackAmounts(hits) ==
    UNION {{a \in TextAmounts(hits[i].chunk.text) : MinAmount <= a /\ a <= MaxAmount}
           : i \in 1..Len(hits)}

\* truncation that starts at 200 characters instead of after them
ClauseTextFrom200(t) ==
    IF TextLen(t) >= ClauseTextLen THEN <<t, ClauseTextLen, "...">> ELSE <<t>>

\* rag_policy_qa.py:475  chunk.text[:200] + "..." when longer than 200
ClauseText(t) ==
    IF TextLen(t) > ClauseTextLen THEN <<t, ClauseTextLen, "...">> ELSE <<t>>

\* rag_policy_qa.py:472-481  the dicts of the top chunks (keys: the keys of
\* the dict)
FallbackClauseMapping(hits) ==
    [i \in 1..Min(MaxCitations, Len(hits)) |->
        [keys |-> {"clause_text", "source"},
         clause_text |-> ClauseText(hits[i].chunk.text),
         source |-> [filename |-> hits[i].chunk.filename,
                     page |-> hits[i].chunk.page_number,
                     section |-> hits[i].chunk.section]]]

\* rag_policy_qa.py:462  max(amounts) if amounts else None
FallbackAmount(hits) ==
    IF FallbackAmounts(hits) # {} THEN Some(SetMax(FallbackAmounts(hits))) ELSE NoneV

\* a decision that lets an extracted amount outweigh the keywords
FallbackDecisionByAmount(hits) ==
    IF (\E i \in 1..Len(hits) : TextHasRejection(hits[i].chunk.text))
       /\ FallbackAmounts(hits) = {}
    THEN "rejected" ELSE "approved"

\* rag_policy_qa.py:461-469  approved unless a ranked chunk has a keyword
FallbackDecision(hits) ==
    IF \E i \in 1..Len(hits) : TextHasRejection(hits[i].chunk.text)
    THEN "rejected" ELSE "approved"

\* a fallback that rejects when the query text has a certain word
fallback_reasoning_by_query(q, hits) ==
    QueryResult(IF Count(q, "a") > 0 THEN "rejected" ELSE FallbackDecision(hits),
                FallbackAmount(hits), <<Len(hits), "by_query">>, FallbackClauseMapping(hits))

\* rag_policy_qa.py:429-496
fallback_reasoning(q, hits) ==
    LET amount == FallbackAmount(hits)
        decision == FallbackDecision(hits)
        justification ==
            IF decision = "approved" /\ ~IsNone(amount)
            THEN <<Len(hits), "approved_for", Get(amount)>>
            ELSE IF decision = "rejected"
                 THEN <<Len(hits), "rejected_exclusions">>
                 ELSE <<Len(hits), "no_amount">>
    IN  QueryResult(decision, amount, justification, FallbackClauseMapping(hits))

\* What the reasoning provider can do with a request.
ProviderOutcomes == {"raises", "not_json", "wrong_fields", "json"}

\* The JSON objects with the four fields of QueryResult the provider can
\* answer with: nothing binds their values to the retrieved chunks.
ProviderAnswers(hits) ==
    { QueryResult("approved", Some(MinAmount), <<"llm">>, FallbackClauseMapping(hits)),
      QueryResult("maybe", NoneV, <<"llm">>,
          <<[keys |-> {"clause_text", "source"}, clause_text |-> <<"invented">>,
             source |-> [filename |-> "none", page |-> 0, section |-> "none"]]>>),
      QueryResult("approved", NoneV, <<"llm">>,
          <<[keys |-> {"clause_text"}, clause_text |-> <<"invented">>,
             source |-> [filename |-> "", page |-> 0, section |-> ""]]>>) }

\* rag_policy_qa.py:573-574  query logs clause['source'] of every clause
ClausesHaveSource(result) ==
    \A i \in 1..Len(result.clause_mapping) :
        "source" \in result.clause_mapping[i].keys

\* rag_policy_qa.py:398-427  the results generate_response can return
generate_response(q, hits, has_key) ==
    IF ~has_key THEN {fallback_reasoning(q, hits)}
    ELSE UNION { IF o = "json" THEN ProviderAnswers(hits)
                 ELSE {fallback_reasoning(q, hits)} : o \in ProviderOutcomes }

\* ------------------------------------------------------------------ state
VARIABLES
    chunks,            \* EmbeddingEngine.chunks
    embeddings,        \* EmbeddingEngine.embeddings (None until first stored)
    is_initialized,    \* RAGPolicyQA.is_initialized
    api_key,           \* LLMReasoningEngine.api_key is set
    front,             \* the program that owns the orchestrator: "direct" for
                       \* the callers of rag_policy_qa.py, "flask" for flask_app.py
    rag_system,        \* flask_app.rag_system is not None
    current_document,  \* flask_app.current_document
    query_history,     \* flask_app.query_history (st.session_state.query_history)
    clock,             \* time.time() as a logical clock: the entries stamped so far
    cleared_at,        \* the clock when the history was last cleared
    pc,                \* per thread: the statement it is about to execute
    req,               \* per thread: the call it is serving and its arguments
    lchunks,           \* per thread: the local `chunks` of process_document
    lemb,              \* per thread: the local `embeddings` of create_embeddings
    li,                \* per thread: position of the running for-loop
    sims,              \* per thread: the local `similarities`
    top,               \* per thread: the local `top_indices`
    hits,              \* per thread: the local `results` / `relevant_chunks`
    response,          \* per thread: the local `response_text` of generate_response
    sliced,            \* per thread: the value of `query_history[-50:]` before it is stored
    res,               \* per thread: what the call returned or raised
    calm,              \* per thread: the query began after a load that found no
                       \* text, on a ready orchestrator, and no load began since
    before,            \* the engine as the running (or last) load call found it
    last_load,         \* how the last finished process_document ended
    ever_loaded,       \* a process_document call has returned normally
    built              \* a create_embeddings call has returned

engine == <<chunks, embeddings>>
orchestrator == <<chunks, embeddings, is_initialized>>
flask == <<rag_system, current_document, query_history>>
locals == <<lchunks, lemb, li, sims, top, hits, response, sliced>>
ghosts == <<last_load, ever_loaded, built, before>>
config == <<api_key, front>>
timeline == <<clock, cleared_at>>
vars == <<chunks, embeddings, is_initialized, api_key, front, rag_system, current_document,
          query_history, clock, cleared_at, pc, req, lchunks, lemb, li, sims, top, hits,
          response, sliced, res, calm, last_load, ever_loaded, built, before>>

NoReq == [op |-> "none", doc |-> "", raw |-> <<>>, q |-> <<>>, k |-> 0]
NoRes == [status |-> "none", hits |-> <<>>, result |-> NoneV]

LoadOps == {"process_document", "upload_file", "create_embeddings"}
QueryOps == {"query", "process_query", "semantic_search"}

\* a thread is inside a call that writes the engine
Loading(t) == req[t].op \in LoadOps /\ pc[t] \notin {"idle", "done"}
Querying(t) == req[t].op \in QueryOps /\ pc[t] \notin {"idle", "done"}
Idle(t) == pc[t] = "idle"

\* RAGPolicyQA.__init__, EmbeddingEngine.__init__, the globals of flask_app
Init ==
    /\ chunks = <<>>
    /\ embeddings = NoneV
    /\ is_initialized = FALSE
    /\ api_key \in BOOLEAN
    /\ front \in {"direct", "flask"}
    /\ rag_system = FALSE
    /\ current_document = NoneV
    /\ query_history = <<>>
    /\ clock = 0
    /\ cleared_at = 0
    /\ pc = [t \in Threads |-> "idle"]
    /\ req = [t \in Threads |-> NoReq]
    /\ lchunks = [t \in Threads |-> <<>>]
    /\ lemb = [t \in Threads |-> <<>>]
    /\ li = [t \in Threads |-> 0]
    /\ sims = [t \in Threads |-> <<>>]
    /\ top = [t \in Threads |-> <<>>]
    /\ hits = [t \in Threads |-> <<>>]
    /\ response = [t \in Threads |-> NoneV]
    /\ sliced = [t \in Threads |-> <<>>]
    /\ res = [t \in Threads |-> NoRes]
    /\ calm = [t \in Threads |-> FALSE]
    /\ before = engine
    /\ last_load = "none"
    /\ ever_loaded = FALSE
    /\ built = FALSE

\* the call of thread t ends: its locals die, its outcome is kept for the caller
Finish(t, status, hs, result) ==
    /\ pc' = [pc EXCEPT ![t] = "done"]
    /\ res' = [res EXCEPT ![t] = [status |-> status, hits |-> hs, result |-> result]]
    /\ lchunks' = [lchunks EXCEPT ![t] = <<>>]
    /\ lemb' = [lemb EXCEPT ![t] = <<>>]
    /\ li' = [li EXCEPT ![t] = 0]
    /\ sims' = [sims EXCEPT ![t] = <<>>]
    /\ top' = [top EXCEPT ![t] = <<>>]
    /\ hits' = [hits EXCEPT ![t] = <<>>]
    /\ response' = [response EXCEPT ![t] = NoneV]
    /\ sliced' = [sliced EXCEPT ![t] = <<>>]

Goto(t, label) == pc' = [pc EXCEPT ![t] = label]

\* the caller takes the outcome; the thread is free for the next request
Return(t) ==
    /\ pc[t] = "done"
    /\ pc' = [pc EXCEPT ![t] = "idle"]
    /\ req' = [req EXCEPT ![t] = NoReq]
    /\ res' = [res EXCEPT ![t] = NoRes]
    /\ calm' = [calm EXCEPT ![t] = FALSE]
    /\ before' = IF req[t].op \in LoadOps THEN engine ELSE before
    /\ UNCHANGED <<orchestrator, config, timeline, flask, locals, last_load, ever_loaded, built>>

\* ------------------------------------------------------------ loading
\* The corpus has one writer at a time (a document is loaded by one caller).
NoLoadRunning == \A u \in Threads : ~Loading(u)

BeginLoad(t, op, d) ==
    /\ Idle(t)
    /\ NoLoadRunning
    /\ req' = [req EXCEPT ![t] = [op |-> op, doc |-> d, raw |-> <<>>, q |-> <<>>, k |-> 0]]
    /\ before' = engine
    /\ calm' = [u \in Threads |-> FALSE]
    /\ UNCHANGED <<last_load, ever_loaded, built>>

\* rag_policy_qa.py:519-526  RAGPolicyQA.process_document(pdf_path) is called
ProcessDocumentCall(t, d) ==
    /\ front = "direct"
    /\ BeginLoad(t, "process_document", d)
    /\ Goto(t, "extract")
    /\ UNCHANGED <<orchestrator, config, timeline, flask, locals, res>>

\* flask_app.py:57-83  upload_file saves the file, makes the orchestrator if
\* there is none and calls process_document
UploadFileCall(t, d) ==
    /\ front = "flask"
    /\ BeginLoad(t, "upload_file", d)
    /\ Goto(t, "extract")
    /\ rag_system' = TRUE
    /\ UNCHANGED <<orchestrator, config, timeline, current_document, query_history, locals, res>>

\* a failing process_document that also marks the orchestrator not ready
LoadRaisesResets(t, status) ==
    /\ Finish(t, status, <<>>, NoneV)
    /\ last_load' = status
    /\ is_initialized' = FALSE
    /\ UNCHANGED <<engine, config, timeline, flask, req, calm, ever_loaded, built, before>>

\* a failing process_document: the exception leaves the call (upload_file
\* catches it at flask_app.py:99 and flashes the message)
LoadRaises(t, status) ==
    /\ Finish(t, status, <<>>, NoneV)
    /\ last_load' = status
    /\ UNCHANGED <<orchestrator, config, timeline, flask, req, calm, ever_loaded, built, before>>

\* rag_policy_qa.py:529  chunks = extract_text_from_pdf(pdf_path), or it raises
Extract(t) ==
    /\ pc[t] = "extract"
    /\ IF Readable(req[t].doc)
       THEN /\ lchunks' = [lchunks EXCEPT ![t] = extract_text_from_pdf(req[t].doc)]
            /\ Goto(t, "check_chunks")
            /\ UNCHANGED <<orchestrator, config, timeline, flask, req, lemb, response, sliced, li, sims, top, hits,
                           res, calm, ghosts>>
       ELSE LoadRaises(t, "ExtractError")

\* process_document without its test of the chunk list
CheckChunksSkipped(t) ==
    /\ pc[t] = "check_chunks"
    /\ Goto(t, "set_chunks")
    /\ UNCHANGED <<orchestrator, config, timeline, flask, req, locals, res, calm, ghosts>>

\* rag_policy_qa.py:531-535  no chunks: ValueError; else create_embeddings(chunks)
CheckChunks(t) ==
    /\ pc[t] = "check_chunks"
    /\ IF lchunks[t] = <<>>
       THEN LoadRaises(t, "NoExtractableText")
       ELSE /\ Goto(t, "set_chunks")
            /\ UNCHANGED <<orchestrator, config, timeline, flask, req, locals, res, calm, ghosts>>

\* rag_policy_qa.py:263  self.chunks = chunks
SetChunks(t) ==
    /\ pc[t] = "set_chunks"
    /\ chunks' = lchunks[t]
    /\ Goto(t, "encode")
    /\ UNCHANGED <<embeddings, is_initialized, config, timeline, flask, req, locals, res, calm, ghosts>>

\* rag_policy_qa.py:266-269  embeddings = self.model.encode(texts)
Encode(t) ==
    /\ pc[t] = "encode"
    /\ lemb' = [lemb EXCEPT ![t] = EncodeChunks(lchunks[t])]
    /\ Goto(t, "set_embeddings")
    /\ UNCHANGED <<orchestrator, config, timeline, flask, req, lchunks, response, sliced, li, sims, top, hits,
                   res, calm, ghosts>>

\* rag_policy_qa.py:269  the embedding model raises (memory, device, input)
EncodeRaises(t) ==
    /\ pc[t] = "encode"
    /\ IF req[t].op = "create_embeddings"
       THEN /\ Finish(t, "EmbedError", <<>>, NoneV)
            /\ UNCHANGED <<orchestrator, config, timeline, flask, req, calm, ghosts>>
       ELSE LoadRaises(t, "EmbedError")

\* rag_policy_qa.py:270  self.embeddings = np.array(embeddings)
SetEmbeddings(t) ==
    /\ pc[t] = "set_embeddings"
    /\ embeddings' = Some(lemb[t])
    /\ li' = [li EXCEPT ![t] = 1]
    /\ Goto(t, "attach")
    /\ UNCHANGED <<chunks, is_initialized, config, timeline, flask, req, lchunks, lemb, response, sliced, sims, top,
                   hits, res, calm, ghosts>>

\* rag_policy_qa.py:273-274  one iteration: chunk.embedding = embeddings[i],
\* on the chunk object of the list the call was given, wherever it is held
Attach(t) ==
    /\ pc[t] = "attach"
    /\ li[t] <= Len(lchunks[t])
    /\ chunks' = [i \in 1..Len(chunks) |->
                      IF chunks[i].chunk_id = lchunks[t][li[t]].chunk_id
                      THEN [chunks[i] EXCEPT !.embedding = Some(lemb[t][li[t]])]
                      ELSE chunks[i]]
    /\ li' = [li EXCEPT ![t] = li[t] + 1]
    /\ UNCHANGED <<embeddings, is_initialized, config, timeline, flask, pc, req, lchunks, lemb, response, sliced,
                   sims, top, hits, res, calm, ghosts>>

\* rag_policy_qa.py:276  create_embeddings returns to a direct caller
CreateEmbeddingsReturns(t) ==
    /\ pc[t] = "attach"
    /\ li[t] > Len(lchunks[t])
    /\ req[t].op = "create_embeddings"
    /\ Finish(t, "ok", <<>>, NoneV)
    /\ built' = TRUE
    /\ UNCHANGED <<orchestrator, config, timeline, flask, req, calm, last_load, ever_loaded, before>>

\* rag_policy_qa.py:276, 537-538  create_embeddings returns to process_document,
\* which sets is_initialized and returns
SetInitialized(t) ==
    /\ pc[t] = "attach"
    /\ li[t] > Len(lchunks[t])
    /\ req[t].op \in {"process_document", "upload_file"}
    /\ is_initialized' = TRUE
    /\ built' = TRUE
    /\ ever_loaded' = TRUE
    /\ last_load' = "ok"
    /\ IF req[t].op = "upload_file"
       THEN /\ Goto(t, "set_current")
            /\ UNCHANGED <<res, locals>>
       ELSE Finish(t, "ok", <<>>, NoneV)
    /\ UNCHANGED <<engine, config, timeline, flask, req, calm, before>>

\* flask_app.py:84-97  upload_file records the statistics and the document
SetCurrentDocument(t) ==
    /\ pc[t] = "set_current"
    /\ current_document' = Some(req[t].doc)
    /\ Finish(t, "ok", <<>>, NoneV)
    /\ UNCHANGED <<orchestrator, config, timeline, rag_system, query_history, req, calm, ghosts>>

\* ------------------------------------------------------------ querying
\* raw is the text the caller sent, q the text handed to RAGPolicyQA.query
BeginQuery(t, op, raw, q, k) ==
    /\ Idle(t)
    /\ req' = [req EXCEPT ![t] = [op |-> op, doc |-> "", raw |-> raw, q |-> q, k |-> k]]
    /\ calm' = [calm EXCEPT ![t] =
                    NoLoadRunning /\ is_initialized /\ last_load = "NoExtractableText"]

\* query without its test of is_initialized
NotInitializedNever == FALSE

\* rag_policy_qa.py:551  `if not self.is_initialized`
NotInitialized == ~is_initialized

\* flask_app.py:111  `if not rag_system or not current_document`
NoDocumentLoaded == ~rag_system \/ IsNone(current_document)

\* flask_app.py:118  `if not query` on the stripped text
EmptyQuery(text) == Strip(text) = <<>>

\* a failing query that is entered in the history
QueryRaisesLogged(t, status) ==
    /\ Finish(t, status, <<>>, NoneV)
    /\ query_history' = Append(query_history,
                               [query |-> req[t].q, result |-> NoClausesResult,
                                timestamp |-> clock + 1])
    /\ UNCHANGED <<orchestrator, config, timeline, rag_system, current_document, req, calm,
                   ghosts>>

\* a failing query that also drops the index
QueryRaisesDropsIndex(t, status) ==
    /\ Finish(t, status, <<>>, NoneV)
    /\ embeddings' = NoneV
    /\ UNCHANGED <<chunks, is_initialized, config, timeline, flask, req, calm, ghosts>>

\* an exception leaves the query (process_query answers it with an error,
\* flask_app.py:154-155); nothing is appended to the history
QueryRaises(t, status) ==
    /\ Finish(t, status, <<>>, NoneV)
    /\ UNCHANGED <<orchestrator, config, timeline, flask, req, calm, ghosts>>

\* rag_policy_qa.py:540-557  RAGPolicyQA.query(user_query, top_k) is called
QueryCall(t, q, k) ==
    /\ front = "direct"
    /\ BeginQuery(t, "query", q, q, k)
    /\ IF NotInitialized
       THEN Finish(t, "NotReady", <<>>, NoneV)
       ELSE /\ Goto(t, "search_guard")
            /\ UNCHANGED <<res, locals>>
    /\ UNCHANGED <<orchestrator, config, timeline, flask, ghosts>>

\* flask_app.py:107-123  process_query: the guards, then rag_system.query
ProcessQueryHandler(t, raw, k) ==
    /\ front = "flask"
    /\ BeginQuery(t, "process_query", raw, Strip(raw), k)
    /\ IF NoDocumentLoaded
       THEN Finish(t, "NotReady", <<>>, NoneV)
       ELSE IF EmptyQuery(raw)
            THEN Finish(t, "EmptyQuery", <<>>, NoneV)
            ELSE IF NotInitialized
                 THEN Finish(t, "NotReady", <<>>, NoneV)
                 ELSE /\ Goto(t, "search_guard")
                      /\ UNCHANGED <<res, locals>>
    /\ UNCHANGED <<orchestrator, config, timeline, flask, ghosts>>

\* a request to /query of flask_app while the history is short
ProcessQueryCall(t, raw, k) ==
    /\ Len(query_history) < MaxHistory
    /\ ProcessQueryHandler(t, raw, k)

\* streamlit_app.py:286-323  query_interface: a document was processed and
\* the text is not blank; execute_query hands the text to rag_system.query
ExecuteQueryCall(t, raw, k) ==
    /\ front = "streamlit"
    /\ ~IsNone(current_document)
    /\ Strip(raw) # <<>>
    /\ BeginQuery(t, "execute_query", raw, raw, k)
    /\ IF NotInitialized
       THEN Finish(t, "NotReady", <<>>, NoneV)
       ELSE /\ Goto(t, "search_guard")
            /\ UNCHANGED <<res, locals>>
    /\ UNCHANGED <<orchestrator, config, timeline, flask, ghosts>>

\* rag_policy_qa.py:289-290  semantic_search refuses an index without embeddings
SearchGuard(t) ==
    /\ pc[t] = "search_guard"
    /\ IF NoEmbeddingsAvailable(embeddings, chunks)
       THEN QueryRaises(t, "IndexNotBuilt")
       ELSE /\ Goto(t, "similarities")
            /\ UNCHANGED <<orchestrator, config, timeline, flask, req, locals, res, calm, ghosts>>

\* rag_policy_qa.py:295-301  the scores of the stored rows, the top_k indices
\* (cosine_similarity raises ValueError on a matrix without rows)
ComputeSimilarities(t) ==
    /\ pc[t] = "similarities"
    /\ IF IsNone(embeddings) \/ Get(embeddings) = <<>>
       THEN QueryRaises(t, "SimilarityError")
       ELSE LET s == Similarities(req[t].q, Get(embeddings))
            IN  /\ \E ti \in TopIndices(s, req[t].k) : top' = [top EXCEPT ![t] = ti]
                /\ sims' = [sims EXCEPT ![t] = s]
                /\ li' = [li EXCEPT ![t] = 1]
                /\ Goto(t, "collect")
                /\ UNCHANGED <<orchestrator, config, timeline, flask, req, lchunks, lemb, response, sliced, hits,
                               res, calm, ghosts>>

\* rag_policy_qa.py:304-307  one iteration: results.append((self.chunks[idx], score))
Collect(t) ==
    /\ pc[t] = "collect"
    /\ li[t] <= Len(top[t])
    /\ LET idx == top[t][li[t]]
       IN  IF idx > Len(chunks)
           THEN QueryRaises(t, "IndexError")
           ELSE /\ hits' = [hits EXCEPT ![t] =
                        Append(hits[t], [chunk |-> chunks[idx], score |-> sims[t][idx]])]
                /\ li' = [li EXCEPT ![t] = li[t] + 1]
                /\ UNCHANGED <<orchestrator, config, timeline, flask, pc, req, lchunks, lemb, response, sliced, sims,
                               top, res, calm, ghosts>>

\* the front-end handlers that keep a history of the results
FrontEndQueries == {"process_query", "execute_query"}

\* the query has its result: the orchestrator returns it, a front-end handler
\* goes on to the history
QueryHasResult(t, result) ==
    IF req[t].op \in FrontEndQueries
    THEN /\ Goto(t, "append_history")
         /\ res' = [res EXCEPT ![t] = [status |-> "pending", hits |-> hits[t],
                                       result |-> Some(result)]]
         /\ UNCHANGED locals
    ELSE Finish(t, "ok", hits[t], Some(result))

\* rag_policy_qa.py:310  semantic_search returns to a direct caller
SemanticSearchReturns(t) ==
    /\ pc[t] = "collect"
    /\ li[t] > Len(top[t])
    /\ req[t].op = "semantic_search"
    /\ Finish(t, "ok", hits[t], NoneV)
    /\ UNCHANGED <<orchestrator, config, timeline, flask, req, calm, ghosts>>

\* rag_policy_qa.py:310, 559-566  semantic_search returns to query, which
\* answers at once when there are no hits
SearchReturns(t) ==
    /\ pc[t] = "collect"
    /\ li[t] > Len(top[t])
    /\ req[t].op \in {"query", "api_query"} \cup FrontEndQueries
    /\ IF hits[t] = <<>>
       THEN QueryHasResult(t, NoClausesResult)
       ELSE /\ Goto(t, "generate")
            /\ UNCHANGED <<res, locals>>
    /\ UNCHANGED <<orchestrator, config, timeline, flask, req, calm, ghosts>>

\* rag_policy_qa.py:569-576  result = generate_response(...), the log of its
\* clauses, return result
Generate(t) ==
    /\ pc[t] = "generate"
    /\ \E result \in generate_response(req[t].q, hits[t], api_key) :
           IF ClausesHaveSource(result)
           THEN /\ QueryHasResult(t, result)
                /\ UNCHANGED <<orchestrator, config, timeline, flask, req, calm, ghosts>>
           ELSE QueryRaises(t, "KeyError")

\* flask_app.py:126-138  query_entry with its timestamp, query_history.append
AppendHistory(t) ==
    /\ pc[t] = "append_history"
    /\ req[t].op = "process_query"
    /\ query_history' = Append(query_history,
                               [query |-> req[t].q, result |-> Get(res[t].result),
                                timestamp |-> clock + 1])
    /\ clock' = clock + 1
    /\ Goto(t, "trim_history")
    /\ UNCHANGED <<orchestrator, config, cleared_at, rag_system, current_document, req, locals,
                   res, calm, ghosts>>

\* flask_app.py:141, 144-152  `if len(query_history) > 50`; when it is not,
\* the request is answered
TrimHistory(t) ==
    /\ pc[t] = "trim_history"
    /\ IF Len(query_history) > HistoryCap
       THEN /\ Goto(t, "slice_history")
            /\ UNCHANGED <<res, locals>>
       ELSE Finish(t, "ok", res[t].hits, res[t].result)
    /\ UNCHANGED <<orchestrator, config, timeline, flask, req, calm, ghosts>>

\* the last n elements of a list, seq[-n:]
LastN(seq, n) == SubSeq(seq, Max(Len(seq) - n, 0) + 1, Len(seq))

\* flask_app.py:142  the right-hand side query_history[-50:] is evaluated
SliceHistory(t) ==
    /\ pc[t] = "slice_history"
    /\ sliced' = [sliced EXCEPT ![t] = LastN(query_history, HistoryCap)]
    /\ Goto(t, "store_history")
    /\ UNCHANGED <<orchestrator, config, timeline, flask, req, lchunks, lemb, li, sims, top,
                   hits, response, res, calm, ghosts>>

\* flask_app.py:142, 144-152  the global query_history is bound to the slice,
\* the request is answered
StoreHistory(t) ==
    /\ pc[t] = "store_history"
    /\ query_history' = sliced[t]
    /\ Finish(t, "ok", res[t].hits, res[t].result)
    /\ UNCHANGED <<orchestrator, config, timeline, rag_system, current_document, req, calm,
                   ghosts>>

\* streamlit_app.py:326-336  st.session_state.query_history.append({...}); the
\* results are displayed
AppendSessionHistory(t) ==
    /\ pc[t] = "append_history"
    /\ req[t].op = "execute_query"
    /\ query_history' = Append(query_history,
                               [query |-> req[t].q, result |-> Get(res[t].result),
                                timestamp |-> clock + 1])
    /\ clock' = clock + 1
    /\ Finish(t, "ok", res[t].hits, res[t].result)
    /\ UNCHANGED <<orchestrator, config, cleared_at, rag_system, current_document, req,
                   calm, ghosts>>

\* flask_app.py:162-167  clear_history (streamlit_app.py:459-460, the button)
ClearHistory(t) ==
    /\ Idle(t)
    /\ query_history' = <<>>
    /\ cleared_at' = clock
    /\ UNCHANGED <<orchestrator, config, clock, rag_system, current_document, pc, req,
                   locals, res, calm, ghosts>>

\* flask_app.py:169-177  get_stats answers with len(query_history)
GetStats(t) ==
    /\ Idle(t)
    /\ front = "flask"
    /\ req' = [req EXCEPT ![t] = [op |-> "get_stats", doc |-> "", raw |-> <<>>, q |-> <<>>,
                                   k |-> 0]]
    /\ Finish(t, "ok", <<>>, Some(Len(query_history)))
    /\ UNCHANGED <<orchestrator, config, timeline, flask, calm, ghosts>>

\* ------------------------------------------ the /query API of rag_policy_qa
\* the policy paths and the query texts the clients of the API send
ApiDocs == {"A.pdf", "B.pdf", "X.pdf"}
ApiQueries == { <<" ", "a">> }

\* rag_policy_qa.py:595-611  api_query: the orchestrator is made if there is
\* none; the document is processed when nothing is loaded or another
\* document is the current one
ApiQueryCall(t, d, q) ==
    /\ Idle(t)
    /\ front = "api"
    /\ req' = [req EXCEPT ![t] = [op |-> "api_query", doc |-> d, raw |-> q, q |-> q,
                                   k |-> DefaultTopK]]
    /\ rag_system' = TRUE
    /\ Goto(t, IF NotInitialized \/ current_document # Some(d) THEN "extract" ELSE "api_query")
    /\ UNCHANGED <<orchestrator, config, timeline, current_document, query_history, locals,
                   res, calm, ghosts>>

\* rag_policy_qa.py:276, 537-538  create_embeddings returns to
\* process_document, which sets is_initialized and returns to api_query
ApiSetInitialized(t) ==
    /\ pc[t] = "attach"
    /\ li[t] > Len(lchunks[t])
    /\ req[t].op = "api_query"
    /\ is_initialized' = TRUE
    /\ built' = TRUE
    /\ ever_loaded' = TRUE
    /\ last_load' = "ok"
    /\ Goto(t, "api_set_current")
    /\ UNCHANGED <<engine, config, timeline, flask, req, locals, res, calm, before>>

\* rag_policy_qa.py:611  rag_system.current_document = policy_path
ApiSetCurrentDocument(t) ==
    /\ pc[t] = "api_set_current"
    /\ current_document' = Some(req[t].doc)
    /\ Goto(t, "api_query")
    /\ UNCHANGED <<orchestrator, config, timeline, rag_system, query_history, req, locals,
                   res, calm, ghosts>>

\* rag_policy_qa.py:614, 551-557  result = rag_system.query(query): the test
\* of is_initialized, then the search
ApiQuery(t) ==
    /\ pc[t] = "api_query"
    /\ IF NotInitialized
       THEN QueryRaises(t, "NotReady")
       ELSE /\ Goto(t, "search_guard")
            /\ UNCHANGED <<orchestrator, config, timeline, flask, req, locals, res, calm,
                           ghosts>>

\* --------------------------------------------- the engine used on its own
\* a direct caller of the engine passes create_embeddings the chunks of one
\* of these documents: two chunks, one chunk, none
EngineDocs == {"A.pdf", "B.pdf", "E.pdf"}

\* a single-threaded client: one call at a time
NoCallRunning == \A u \in Threads : Idle(u)

\* rag_policy_qa.py:255-262  EmbeddingEngine.create_embeddings(chunks) is called
CreateEmbeddingsCall(t, d) ==
    /\ NoCallRunning
    /\ BeginLoad(t, "create_embeddings", d)
    /\ lchunks' = [lchunks EXCEPT ![t] = extract_text_from_pdf(d)]
    /\ Goto(t, "set_chunks")
    /\ UNCHANGED <<orchestrator, config, timeline, flask, lemb, response, sliced, li, sims, top, hits, res>>

\* rag_policy_qa.py:278-288  EmbeddingEngine.semantic_search(query, top_k) is called
SemanticSearchCall(t, q, k) ==
    /\ NoCallRunning
    /\ BeginQuery(t, "semantic_search", q, q, k)
    /\ Goto(t, "search_guard")
    /\ UNCHANGED <<orchestrator, config, timeline, flask, locals, res, ghosts>>

\* ------------------------------------------- the splitter used on its own
\* rag_policy_qa.py:192-232  _split_text_into_chunks(text) is called and returns
SplitCall(t, text) ==
    /\ NoCallRunning
    /\ req' = [req EXCEPT ![t] = [op |-> "split_text_into_chunks", doc |-> "", raw |-> text,
                                   q |-> <<>>, k |-> 0]]
    /\ Finish(t, "ok", <<>>, Some(split_text_into_chunks(text)))
    /\ UNCHANGED <<orchestrator, config, timeline, flask, calm, ghosts>>

\* ------------------------------------- the reasoning engine used on its own
\* The chunks a direct caller of generate_response ranks: those of A.pdf and
\* B.pdf and two chunks of a third document, of 200 and of 201 characters.
SynthChunks ==
    extract_text_from_pdf("A.pdf") \o extract_text_from_pdf("B.pdf")
    \o << DocumentChunk("c200", 1, "General", "C.pdf", <<"C.pdf", 1, 1>>),
          DocumentChunk("c201", 2, "LIMITS", "C.pdf", <<"C.pdf", 2, 1>>) >>

\* the ranked hit lists a caller passes: up to MaxHits different chunks in any
\* order, the scores falling with the rank
RankedHits ==
    UNION { { [i \in 1..n |-> [chunk |-> SynthChunks[f[i]], score |-> n - i]] :
                f \in {g \in [1..n -> 1..Len(SynthChunks)] :
                           \A i, j \in 1..n : i # j => g[i] # g[j]} } :
            n \in 0..Min(MaxHits, Len(SynthChunks)) }

\* rag_policy_qa.py:414  what the provider can send back: text that is not
\* JSON, a JSON object without the fields of QueryResult, or one with them
ProviderResponses(hs) ==
    { [kind |-> "not_json", answer |-> NoneV], [kind |-> "wrong_fields", answer |-> NoneV] }
    \cup { [kind |-> "json", answer |-> Some(a)] : a \in ProviderAnswers(hs) }

\* rag_policy_qa.py:334-396  generate_response(query, relevant_chunks) is
\* called and builds its prompts
GenerateResponseCall(t, q, hs) ==
    /\ NoCallRunning
    /\ BeginQuery(t, "generate_response", q, q, 0)
    /\ hits' = [hits EXCEPT ![t] = hs]
    /\ Goto(t, "check_key")
    /\ UNCHANGED <<orchestrator, config, timeline, flask, lchunks, lemb, li, sims, top, response, sliced,
                   res, ghosts>>

\* rag_policy_qa.py:334-396  generate_response of an engine without an API
\* key is called again, with another query text and the ranked chunks of the
\* call that has just returned
GenerateResponseAgain(t, q) ==
    /\ Idle(t)
    /\ ~api_key
    /\ \E u \in Threads \ {t} :
           /\ pc[u] = "done" /\ req[u].op = "generate_response" /\ req[u].q # q
           /\ hits' = [hits EXCEPT ![t] = res[u].hits]
    /\ BeginQuery(t, "generate_response", q, q, 0)
    /\ Goto(t, "check_key")
    /\ UNCHANGED <<orchestrator, config, timeline, flask, lchunks, lemb, li, sims, top, response,
                   sliced, res, ghosts>>

\* rag_policy_qa.py:399-402  without an API key: the fallback
CheckKey(t) ==
    /\ pc[t] = "check_key"
    /\ Goto(t, IF api_key THEN "provider" ELSE "fallback")
    /\ UNCHANGED <<orchestrator, config, timeline, flask, req, locals, res, calm, ghosts>>

\* rag_policy_qa.py:404-412, 425-427  the provider call raises (transport,
\* authentication, timeout): the outer handler falls back
ProviderRaises(t) ==
    /\ pc[t] = "provider"
    /\ Goto(t, "fallback")
    /\ UNCHANGED <<orchestrator, config, timeline, flask, req, locals, res, calm, ghosts>>

\* rag_policy_qa.py:404-415  the provider answers: response_text
ProviderResponds(t) ==
    /\ pc[t] = "provider"
    /\ \E r \in ProviderResponses(hits[t]) : response' = [response EXCEPT ![t] = Some(r)]
    /\ Goto(t, "parse")
    /\ UNCHANGED <<orchestrator, config, timeline, flask, req, lchunks, lemb, li, sims, top, hits,
                   sliced, res, calm, ghosts>>

\* a parse step whose errors leave generate_response
ParseResponseRaises(t) ==
    /\ pc[t] = "parse"
    /\ IF Get(response[t]).kind = "json"
       THEN /\ Finish(t, "ok", hits[t], Get(response[t]).answer)
            /\ UNCHANGED <<orchestrator, config, timeline, flask, req, calm, ghosts>>
       ELSE QueryRaises(t, "ParseError")

\* rag_policy_qa.py:418-427  json.loads and QueryResult(**result_dict): the
\* object is returned as it is; JSONDecodeError and TypeError fall back
ParseResponse(t) ==
    /\ pc[t] = "parse"
    /\ IF Get(response[t]).kind = "json"
       THEN /\ Finish(t, "ok", hits[t], Get(response[t]).answer)
            /\ UNCHANGED <<orchestrator, config, timeline, flask, req, calm, ghosts>>
       ELSE /\ Goto(t, "fallback")
            /\ UNCHANGED <<orchestrator, config, timeline, flask, req, locals, res, calm, ghosts>>

\* rag_policy_qa.py:402, 423, 427  return self._fallback_reasoning(...)
FallbackReasoning(t) ==
    /\ pc[t] = "fallback"
    /\ Finish(t, "ok", hits[t], Some(fallback_reasoning(req[t].q, hits[t])))
    /\ UNCHANGED <<orchestrator, config, timeline, flask, req, calm, ghosts>>

\* ---------------------------------------------------------- specifications
\* the steps inside a load call
LoadStep(t) ==
    \/ Extract(t)
    \/ CheckChunks(t)
    \/ SetChunks(t)
    \/ Encode(t)
    \/ EncodeRaises(t)
    \/ SetEmbeddings(t)
    \/ Attach(t)
    \/ SetInitialized(t)
    \/ SetCurrentDocument(t)

\* the steps inside a query call
QueryStep(t) ==
    \/ SearchGuard(t)
    \/ ComputeSimilarities(t)
    \/ Collect(t)
    \/ SearchReturns(t)
    \/ Generate(t)
    \/ AppendHistory(t)
    \/ TrimHistory(t)

\* RAGPolicyQA behind its callers, direct or the Flask handlers (a server
\* thread per request): a load and a query can run at the same time
Next ==
    \/ \E t \in Loaders :
        \/ \E d \in Docs : ProcessDocumentCall(t, d)
        \/ \E d \in Docs : UploadFileCall(t, d)
        \/ LoadStep(t)
        \/ Return(t)
    \/ \E t \in Askers :
        \/ \E q \in QueryTexts, k \in Ks : QueryCall(t, q, k)
        \/ \E q \in QueryTexts, k \in Ks : ProcessQueryCall(t, q, k)
        \/ QueryStep(t)
        \/ Return(t)

Spec == Init /\ [][Next]_vars

\* the EmbeddingEngine driven directly, one call after the other
NextEngine ==
    \E t \in Loaders :
        \/ \E d \in EngineDocs : CreateEmbeddingsCall(t, d)
        \/ SetChunks(t)
        \/ Encode(t)
        \/ EncodeRaises(t)
        \/ SetEmbeddings(t)
        \/ Attach(t)
        \/ CreateEmbeddingsReturns(t)
        \/ \E q \in QueryTexts, k \in EngineKs : SemanticSearchCall(t, q, k)
        \/ SearchGuard(t)
        \/ ComputeSimilarities(t)
        \/ Collect(t)
        \/ SemanticSearchReturns(t)
        \/ Return(t)

SpecEngine == Init /\ [][NextEngine]_vars

\* rag_policy_qa.py:263-274  the chunks of a document as create_embeddings
\* leaves them, every chunk with its embedding
LoadedChunks(d) ==
    LET chs == extract_text_from_pdf(d)
    IN  [i \in 1..Len(chs) |-> [chs[i] EXCEPT !.embedding = Some(EncodeChunks(chs)[i])]]

\* a front end of `fronts` after A.pdf was processed, without an API key
InitLoaded(fronts) ==
    /\ chunks = LoadedChunks("A.pdf")
    /\ embeddings = Some(EncodeChunks(extract_text_from_pdf("A.pdf")))
    /\ is_initialized = TRUE
    /\ api_key = FALSE
    /\ front \in fronts
    /\ rag_system = TRUE
    /\ current_document = Some("A.pdf")
    /\ query_history = <<>>
    /\ clock = 0
    /\ cleared_at = 0
    /\ pc = [t \in Threads |-> "idle"]
    /\ req = [t \in Threads |-> NoReq]
    /\ lchunks = [t \in Threads |-> <<>>]
    /\ lemb = [t \in Threads |-> <<>>]
    /\ li = [t \in Threads |-> 0]
    /\ sims = [t \in Threads |-> <<>>]
    /\ top = [t \in Threads |-> <<>>]
    /\ hits = [t \in Threads |-> <<>>]
    /\ response = [t \in Threads |-> NoneV]
    /\ sliced = [t \in Threads |-> <<>>]
    /\ res = [t \in Threads |-> NoRes]
    /\ calm = [t \in Threads |-> FALSE]
    /\ before = engine
    /\ last_load = "ok"
    /\ ever_loaded = TRUE
    /\ built = TRUE

InitHistory == InitLoaded({"flask", "streamlit"})

\* one user of a front end with a document loaded: queries and clears of the
\* history, one request after the other
NextHistory ==
    \E t \in Askers :
        \/ clock < MaxClock /\ \E raw \in QueryTexts : ProcessQueryHandler(t, raw, DefaultTopK)
        \/ clock < MaxClock /\ \E raw \in QueryTexts : ExecuteQueryCall(t, raw, DefaultTopK)
        \/ QueryStep(t)
        \/ SliceHistory(t)
        \/ StoreHistory(t)
        \/ AppendSessionHistory(t)
        \/ ClearHistory(t)
        \/ Return(t)

SpecHistory == InitHistory /\ [][NextHistory]_vars

InitFlask == InitLoaded({"flask"})

\* the Flask server with a document loaded, a thread per request: queries
\* and reads of the statistics at the same time
NextFlask ==
    \E t \in Threads :
        \/ clock < MaxClock /\ \E raw \in QueryTexts : ProcessQueryHandler(t, raw, DefaultTopK)
        \/ QueryStep(t)
        \/ SliceHistory(t)
        \/ StoreHistory(t)
        \/ GetStats(t)
        \/ Return(t)

SpecFlask == InitFlask /\ [][NextFlask]_vars

\* the splitter of PDFProcessor driven directly, one page text after the other
NextSplit ==
    \E t \in Loaders :
        \/ \E text \in PageTexts : SplitCall(t, text)
        \/ Return(t)

SpecSplit == Init /\ [][NextSplit]_vars

\* the API server of rag_policy_qa.py as it starts, without an API key
InitApi ==
    /\ chunks = <<>>
    /\ embeddings = NoneV
    /\ is_initialized = FALSE
    /\ api_key = FALSE
    /\ front = "api"
    /\ rag_system = FALSE
    /\ current_document = NoneV
    /\ query_history = <<>>
    /\ clock = 0
    /\ cleared_at = 0
    /\ pc = [t \in Threads |-> "idle"]
    /\ req = [t \in Threads |-> NoReq]
    /\ lchunks = [t \in Threads |-> <<>>]
    /\ lemb = [t \in Threads |-> <<>>]
    /\ li = [t \in Threads |-> 0]
    /\ sims = [t \in Threads |-> <<>>]
    /\ top = [t \in Threads |-> <<>>]
    /\ hits = [t \in Threads |-> <<>>]
    /\ response = [t \in Threads |-> NoneV]
    /\ sliced = [t \in Threads |-> <<>>]
    /\ res = [t \in Threads |-> NoRes]
    /\ calm = [t \in Threads |-> FALSE]
    /\ before = engine
    /\ last_load = "none"
    /\ ever_loaded = FALSE
    /\ built = FALSE

\* the /query API, a thread per request
NextApi ==
    \E t \in Threads :
        \/ \E d \in ApiDocs, q \in ApiQueries : ApiQueryCall(t, d, q)
        \/ Extract(t)
        \/ CheckChunks(t)
        \/ SetChunks(t)
        \/ Encode(t)
        \/ EncodeRaises(t)
        \/ SetEmbeddings(t)
        \/ Attach(t)
        \/ ApiSetInitialized(t)
        \/ ApiSetCurrentDocument(t)
        \/ ApiQuery(t)
        \/ SearchGuard(t)
        \/ ComputeSimilarities(t)
        \/ Collect(t)
        \/ SearchReturns(t)
        \/ Generate(t)
        \/ Return(t)

SpecApi == InitApi /\ [][NextApi]_vars

\* the LLMReasoningEngine driven directly, one call after the other
NextSynth ==
    \E t \in Askers :
        \/ \E q \in QueryTexts, hs \in RankedHits : GenerateResponseCall(t, q, hs)
        \/ CheckKey(t)
        \/ ProviderRaises(t)
        \/ ProviderResponds(t)
        \/ ParseResponse(t)
        \/ FallbackReasoning(t)
        \/ Return(t)

SpecSynth == Init /\ [][NextSynth]_vars

\* the steps inside a generate_response call
SynthStep(t) ==
    \/ CheckKey(t)
    \/ ProviderRaises(t)
    \/ ProviderResponds(t)
    \/ ParseResponse(t)
    \/ FallbackReasoning(t)

\* the LLMReasoningEngine called twice over the same ranked chunks
NextPair ==
    \/ \E t \in Askers :
           \/ \E q \in QueryTexts, hs \in RankedHits : GenerateResponseCall(t, q, hs)
           \/ SynthStep(t)
           \/ Return(t)
    \/ \E t \in Loaders :
           \/ \E q \in QueryTexts : GenerateResponseAgain(t, q)
           \/ SynthStep(t)
           \/ Return(t)

SpecPair == Init /\ [][NextPair]_vars

\* ------------------------------------------------------------------ claims
OrchestratorLoads == {"process_document", "upload_file"}
OrchestratorQueries == {"query", "process_query"}

Done(t) == pc[t] = "done"

\* the chunk list and the matrix are one corpus: same length, row i is the
\* embedding of chunk i
CorpusConsistent(chs, emb) ==
    /\ ~IsNone(emb)
    /\ Len(Get(emb)) = Len(chs)
    /\ \A i \in 1..Len(chs) : Get(emb)[i] = TextVec(chs[i].text)

\* which chunks a list holds, in order
ChunkIds(chs) == [i \in 1..Len(chs) |-> chs[i].chunk_id]

\* C1: a process_document call that fails on an orchestrator holding a corpus
\* leaves the chunk sequence (the same chunks in the same order) and the
\* embedding matrix as they were before it.
C1_FailedLoadKeepsCorpus ==
    \A t \in Threads :
        (Done(t) /\ req[t].op \in OrchestratorLoads /\ res[t].status # "ok"
            /\ is_initialized)
        => /\ ChunkIds(chunks) = ChunkIds(before[1])
           /\ embeddings = before[2]

\* C2: whenever a query is at a point where it reads the index, the chunk list
\* and the embedding matrix belong to the same corpus.
C2_QueryReadsOneCorpus ==
    \A t \in Threads :
        (req[t].op \in OrchestratorQueries /\ pc[t] \in {"similarities", "collect"})
        => CorpusConsistent(chunks, embeddings)

\* C3: a query with text and k > 0, made after process_document failed with
\* NoExtractableText on a ready orchestrator (no load running since), succeeds,
\* and every hit is a chunk of the corpus the orchestrator holds.
C3_QueryAfterNoTextSucceeds ==
    \A t \in Threads :
        (Done(t) /\ req[t].op \in OrchestratorQueries /\ calm[t]
            /\ Strip(req[t].raw) # <<>> /\ req[t].k > 0)
        => /\ res[t].status = "ok"
           /\ \A i \in 1..Len(res[t].hits) :
                  \E j \in 1..Len(chunks) : res[t].hits[i].chunk = chunks[j]

\* the step in which create_embeddings returns to process_document, which
\* then returns normally
ProcessDocumentSucceeds ==
    \E t \in Threads :
        /\ req[t].op \in OrchestratorLoads
        /\ pc[t] = "attach"
        /\ pc'[t] # "attach"

\* C4: the orchestrator starts Unloaded; is_initialized changes only in the
\* step in which a process_document call completes successfully, and only
\* from false to true: failed loads and queries leave it alone and Ready is
\* never left.
C4_ReadyTransitions ==
    /\ ~is_initialized
    /\ [][(is_initialized' # is_initialized)
            => (~is_initialized /\ is_initialized' /\ ProcessDocumentSucceeds)]_vars

\* a load has failed on a ready orchestrator, which is still ready
C4_Witness ==
    /\ is_initialized
    /\ \E t \in Threads :
           Done(t) /\ req[t].op \in OrchestratorLoads /\ res[t].status # "ok"

\* C5: a process_document call whose chunking yields no chunks fails with
\* NoExtractableText, and a ready orchestrator holds at least one chunk.
C5_ReadyCorpusNotEmpty ==
    /\ is_initialized => Len(chunks) >= 1
    /\ \A t \in Threads :
           (Done(t) /\ req[t].op \in OrchestratorLoads /\ Readable(req[t].doc)
               /\ extract_text_from_pdf(req[t].doc) = <<>>)
           => res[t].status = "NoExtractableText"

\* a document without text was refused on a ready orchestrator
C5_Witness ==
    /\ is_initialized
    /\ \E t \in Threads : Done(t) /\ res[t].status = "NoExtractableText"

\* C6: a query called while no process_document has ever succeeded ends in
\* that very step with NotReady: no search or synthesis step runs, and the
\* orchestrator, the engine and the Flask globals (the history) are unchanged.
C6_QueryBeforeLoadNotReady ==
    [][\A t \in Threads :
          (pc[t] = "idle" /\ pc'[t] # "idle" /\ req'[t].op \in OrchestratorQueries
              /\ ~ever_loaded)
          => /\ pc'[t] = "done"
             /\ res'[t].status = "NotReady"
             /\ res'[t].hits = <<>> /\ IsNone(res'[t].result)
             /\ UNCHANGED <<orchestrator, flask>>]_vars

\* a query was refused with NotReady before any load succeeded
C6_Witness ==
    /\ ~ever_loaded
    /\ \E t \in Threads :
           Done(t) /\ req[t].op \in OrchestratorQueries /\ res[t].status = "NotReady"

\* C7: a query whose text is blank after trimming never gets past the call:
\* it ends with EmptyQuery (NotReady when nothing is loaded), no search runs.
C7_BlankQueryRejected ==
    \A t \in Threads :
        (req[t].op \in OrchestratorQueries /\ pc[t] # "idle"
            /\ Strip(req[t].raw) = <<>>)
        => Done(t) /\ res[t].status \in {"EmptyQuery", "NotReady"}

\* C8: semantic_search on a built index with k <= 0 fails with InvalidK.
C8_NonPositiveKRejected ==
    \A t \in Threads :
        (Done(t) /\ req[t].op = "semantic_search" /\ req[t].k <= 0 /\ built
            /\ res[t].status # "IndexNotBuilt")
        => res[t].status = "InvalidK"

\* C9: create_embeddings with no chunks fails with EmptyCorpus and leaves the
\* chunk list and the matrix as they were.
C9_EmptyBuildRejected ==
    \A t \in Threads :
        (Done(t) /\ req[t].op = "create_embeddings"
            /\ extract_text_from_pdf(req[t].doc) = <<>>)
        => res[t].status = "EmptyCorpus" /\ engine = before

\* C10: while no create_embeddings call has completed, semantic_search stops
\* at its guard: it raises (IndexNotBuilt) and returns no hits.
C10_SearchBeforeBuildRaises ==
    \A t \in Threads :
        (req[t].op = "semantic_search" /\ pc[t] # "idle" /\ ~built)
        => /\ pc[t] \in {"search_guard", "done"}
           /\ Done(t) => (res[t].status = "IndexNotBuilt" /\ res[t].hits = <<>>)

\* a search was refused on an index whose only build failed after it had
\* stored its chunks
C10_Witness ==
    /\ ~built
    /\ chunks # <<>>
    /\ \E t \in Threads :
           Done(t) /\ req[t].op = "semantic_search" /\ res[t].status = "IndexNotBuilt"

\* the score the query of thread t gives a chunk, from the chunk's own text
ScoreOf(t, c) == cosine_similarity(QueryVec(req[t].q), TextVec(c.text))

\* the position of the chunk with this id in the engine's chunk list (0: none)
PosOf(id) ==
    IF \E j \in 1..Len(chunks) : chunks[j].chunk_id = id
    THEN CHOOSE j \in 1..Len(chunks) : chunks[j].chunk_id = id
    ELSE 0

\* a finished semantic_search call of thread t
SearchDone(t) == Done(t) /\ req[t].op = "semantic_search"

\* the index holds chunks and a matrix with rows
IndexHoldsCorpus == Len(chunks) >= 1 /\ ~IsNone(embeddings) /\ Len(Get(embeddings)) >= 1

\* C11: on an index on which a build has completed, holding n >= 1 chunks and
\* a matrix, a search with k > 0 returns min(k, n) hits, in descending order of
\* score, and no chunk left out scores higher than a chunk returned.
C11_TopKDescending ==
    \A t \in Threads :
        (SearchDone(t) /\ req[t].k > 0 /\ built /\ IndexHoldsCorpus)
        => LET hs == res[t].hits
           IN  /\ res[t].status = "ok"
               /\ Len(hs) = Min(req[t].k, Len(chunks))
               /\ \A i \in 1..Len(hs) : PosOf(hs[i].chunk.chunk_id) # 0
               /\ \A i, j \in 1..Len(hs) :
                      i < j => ScoreOf(t, hs[i].chunk) >= ScoreOf(t, hs[j].chunk)
               /\ \A j \in 1..Len(chunks) :
                      (\A i \in 1..Len(hs) : hs[i].chunk.chunk_id # chunks[j].chunk_id)
                      => \A i \in 1..Len(hs) :
                             ScoreOf(t, hs[i].chunk) >= ScoreOf(t, chunks[j])

\* C12: on a consistent index, chunks of equal score are returned in insertion
\* order, and when the cut at k falls among equal scores the chunks inserted
\* earlier are the ones returned.
C12_TiesInInsertionOrder ==
    \A t \in Threads :
        (SearchDone(t) /\ res[t].status = "ok" /\ req[t].k > 0
            /\ CorpusConsistent(chunks, embeddings))
        => LET hs == res[t].hits
           IN  /\ \A i, j \in 1..Len(hs) :
                      (i < j /\ hs[i].score = hs[j].score)
                      => PosOf(hs[i].chunk.chunk_id) < PosOf(hs[j].chunk.chunk_id)
               /\ \A j \in 1..Len(chunks), i \in 1..Len(hs) :
                      ((\A h \in 1..Len(hs) : hs[h].chunk.chunk_id # chunks[j].chunk_id)
                          /\ ScoreOf(t, chunks[j]) = hs[i].score)
                      => PosOf(hs[i].chunk.chunk_id) < j

\* C15: the synthesis step of a query with text and k > 0 (a step that runs
\* only on a ready orchestrator, after a search that returned hits) always
\* ends with a result: whatever the provider answers, the query does not raise.
C15_ProviderNeverFailsQuery ==
    [][\A t \in Threads :
          (req[t].op \in OrchestratorQueries /\ pc[t] = "generate" /\ pc'[t] # "generate"
              /\ Strip(req[t].raw) # <<>> /\ req[t].k > 0)
          => /\ res'[t].status \in {"ok", "pending"}
             /\ ~IsNone(res'[t].result)]_vars

\* ------------------------------------------- claims on the reasoning engine
\* a finished generate_response call of thread t, its hits and its result
GenerateDone(t) == Done(t) /\ req[t].op = "generate_response"

\* What the chunk texts say, read off the documents: the numbers written in
\* them, their lengths, and which of them carry a rejection keyword.
AmountsWritten(text) ==
    CASE text = "a1" -> {15000, 500}
      [] text = "a3" -> {99}
      [] text = "b1" -> {20000000, 2500}
      [] text = "c200" -> {100}
      [] text = "c201" -> {10000000, 10000001}
      [] OTHER -> {}

LengthWritten(text) ==
    CASE text = "a1" -> 120
      [] text = "a2" -> 30
      [] text = "a3" -> 50
      [] text = "e1" -> 49
      [] text = "b1" -> 260
      [] text = "c200" -> 200
      [] text = "c201" -> 201
      [] OTHER -> 0

KeywordTexts == {"b1", "c201"}

\* the written amounts of all the hits that lie in [100, 10,000,000]
PlausibleAmounts(hs) ==
    {v \in UNION {AmountsWritten(hs[i].chunk.text) : i \in 1..Len(hs)} :
        100 <= v /\ v <= 10000000}

\* amount is the largest plausible amount of the hits, None when there is none
AmountIsMaxPlausible(r, hs) ==
    /\ IsNone(r.amount) <=> PlausibleAmounts(hs) = {}
    /\ ~IsNone(r.amount)
       => /\ Get(r.amount) \in PlausibleAmounts(hs)
          /\ \A v \in PlausibleAmounts(hs) : v <= Get(r.amount)

\* rejected exactly when some hit, at any rank, carries a keyword
DecisionFollowsKeywords(r, hs) ==
    /\ r.decision \in {"approved", "rejected"}
    /\ r.decision = "rejected" <=> \E i \in 1..Len(hs) : hs[i].chunk.text \in KeywordTexts

\* one citation per hit of the first three ranks, in rank order: the text
\* (cut after 200 characters, with the ellipsis, when longer) and the source
CitesTopThree(r, hs) ==
    /\ Len(r.clause_mapping) = (IF Len(hs) < 3 THEN Len(hs) ELSE 3)
    /\ \A i \in 1..Len(r.clause_mapping) :
           LET c == hs[i].chunk
               e == r.clause_mapping[i]
           IN  /\ e.keys = {"clause_text", "source"}
               /\ e.clause_text = IF LengthWritten(c.text) <= 200 THEN <<c.text>>
                                  ELSE <<c.text, 200, "...">>
               /\ e.source = [filename |-> c.filename, page |-> c.page_number,
                              section |-> c.section]

IsFallbackResult(r, hs) ==
    AmountIsMaxPlausible(r, hs) /\ DecisionFollowsKeywords(r, hs) /\ CitesTopThree(r, hs)

C14_ResultsAreWellFormed ==
    \A t \in Threads :
        GenerateDone(t)
        => /\ Get(res[t].result).decision \in {"approved", "rejected"}
           /\ \A i \in 1..Len(Get(res[t].result).clause_mapping) :
                  Get(res[t].result).clause_mapping[i].keys = {"clause_text", "source"}

\* C16: generate_response over no hits returns rejected, no amount, the
\* no-relevant-clauses justification and no citations, with or without a key.
C16_NoHitsRejected ==
    \A t \in Threads :
        (GenerateDone(t) /\ res[t].hits = <<>>)
        => /\ res[t].status = "ok"
           /\ Get(res[t].result) = [decision |-> "rejected", amount |-> NoneV,
                                    justification |-> <<"no_relevant_clauses">>,
                                    clause_mapping |-> <<>>]

\* C17: the fallback's amount is the largest number written in any ranked
\* chunk that lies in [100, 10,000,000], None exactly when there is none;
\* the chunk a1 ("Rs. 15,000", "Rs. 500") alone gives 15000.
C17_FallbackAmountIsMax ==
    \A t \in Threads :
        (GenerateDone(t) /\ ~api_key)
        => /\ AmountIsMaxPlausible(Get(res[t].result), res[t].hits)
           /\ (Len(res[t].hits) = 1 /\ res[t].hits[1].chunk.text = "a1")
              => Get(res[t].result).amount = Some(15000)

\* the largest plausible amount stood in the chunk of rank 4 only
C17_Witness ==
    /\ ~api_key
    /\ \E t \in Threads :
           /\ GenerateDone(t) /\ Len(res[t].hits) = 4
           /\ res[t].hits[4].chunk.text = "c201"
           /\ Get(res[t].result).amount = Some(10000000)

\* C18: the fallback rejects exactly when some ranked chunk, at any rank,
\* carries a rejection keyword (in any case), whatever amount was found.
C18_FallbackDecision ==
    \A t \in Threads :
        (GenerateDone(t) /\ ~api_key)
        => DecisionFollowsKeywords(Get(res[t].result), res[t].hits)

\* rejected for a keyword in the chunk of rank 4, with an amount found
C18_Witness ==
    /\ ~api_key
    /\ \E t \in Threads :
           /\ GenerateDone(t) /\ Len(res[t].hits) = 4
           /\ res[t].hits[4].chunk.text \in KeywordTexts
           /\ \A i \in 1..3 : res[t].hits[i].chunk.text \notin KeywordTexts
           /\ Get(res[t].result).decision = "rejected"
           /\ ~IsNone(Get(res[t].result).amount)

\* C19: the fallback cites the hits of ranks 1 to min(3, n) in rank order,
\* each with its text (cut after 200 characters when longer) and its source.
C19_FallbackCitations ==
    \A t \in Threads :
        (GenerateDone(t) /\ ~api_key)
        => CitesTopThree(Get(res[t].result), res[t].hits)

\* four hits, the texts of 200 and of 201 characters among the three cited
C19_Witness ==
    /\ ~api_key
    /\ \E t \in Threads :
           /\ GenerateDone(t) /\ Len(res[t].hits) = 4
           /\ Len(Get(res[t].result).clause_mapping) = 3
           /\ res[t].hits[1].chunk.text = "c200"
           /\ res[t].hits[2].chunk.text = "c201"

\* C20: every citation of a returned result carries the text of one of the
\* ranked chunks, whole or cut after 200 characters with the ellipsis.
C20_CitationsComeFromHits ==
    \A t \in Threads :
        GenerateDone(t)
        => \A i \in 1..Len(Get(res[t].result).clause_mapping) :
               \E j \in 1..Len(res[t].hits) :
                   Get(res[t].result).clause_mapping[i].clause_text
                       \in { <<res[t].hits[j].chunk.text>>,
                             <<res[t].hits[j].chunk.text, 200, "...">> }

\* ------------------------------------------------- claims on the history
\* no handler is between its append and the end of its trimming
HistorySettled == \A t \in Threads : pc[t] \notin {"trim_history", "slice_history", "store_history"}

\* the history is the entries stamped last, oldest first, n of them
HoldsMostRecent(n) ==
    /\ Len(query_history) = n
    /\ \A i \in 1..n : query_history[i].timestamp = clock - n + i

\* C21: between requests the history holds the most recent min(n, 50) entries
\* of the n successful queries since the last clear, oldest first (so at most
\* 50 entries, the oldest being the one evicted), in every front end.
C21_HistoryBounded ==
    HistorySettled => HoldsMostRecent(Min(clock - cleared_at, 50))

\* the entries stamped last, up to 50 of them, are all in the history
KeepsMostRecent ==
    \A ts \in (Max(clock - 50, cleared_at) + 1)..clock :
        \E i \in 1..Len(query_history) : query_history[i].timestamp = ts

\* C22: with requests served at the same time, no read of the statistics
\* sees more than 50 entries, and once the handlers that appended have
\* finished, no entry is missing but those evicted as the oldest of more
\* than 50.
C22_HistorySerialized ==
    /\ \A t \in Threads :
           (Done(t) /\ req[t].op = "get_stats") => Get(res[t].result) <= 50
    /\ HistorySettled => KeepsMostRecent

\* ------------------------------------------------- claims on the chunker
\* every chunk of a list is at least 50 characters long
AllLongEnough(chs) == \A i \in 1..Len(chs) : LengthWritten(chs[i].text) >= 50

\* C24: no chunk the chunker emits, and so no chunk of the engine's list, of
\* a list being built or of a search result, has a trimmed length below 50.
C24_ChunkLengthFloor ==
    /\ AllLongEnough(chunks)
    /\ \A t \in Threads :
           /\ AllLongEnough(lchunks[t])
           /\ \A i \in 1..Len(res[t].hits) : LengthWritten(res[t].hits[i].chunk.text) >= 50

\* A.pdf was built: its candidate of 30 characters is not there, the one of
\* exactly 50 characters is
C24_Witness ==
    /\ built
    /\ ChunkIds(chunks) = << <<"A.pdf", 1, 1>>, <<"A.pdf", 3, 1>> >>
    /\ LengthWritten(chunks[2].text) = 50

\* a finished call of the splitter, its sentences and its chunks
SplitDone(t) == Done(t) /\ req[t].op = "split_text_into_chunks"

\* the sentence stands whole, its words in order, inside the chunk
StandsWholeIn(sentence, chunk) ==
    \E off \in 0..(Len(chunk) - Len(sentence)) :
        SubSeq(chunk, off + 1, off + Len(sentence)) = sentence

\* every sentence with words stands whole in a chunk
SentencesWhole(sentences, out) ==
    \A i \in 1..Len(sentences) :
        sentences[i] # <<>> => \E c \in 1..Len(out) : StandsWholeIn(sentences[i], out[c])

\* every chunk has at most 500 characters, or is one sentence of more
SizeBounded(sentences, out) ==
    \A c \in 1..Len(out) :
        \/ StrLen(out[c]) <= 500
        \/ \E i \in 1..Len(sentences) : out[c] = sentences[i]

\* C25: every sentence of a page stands whole in a chunk, and every chunk
\* has at most 500 characters unless it is a single sentence longer than that.
C25_SizeBoundedWholeSentences ==
    \A t \in Threads :
        SplitDone(t)
        => /\ SentencesWhole(Sentences(req[t].raw), Get(res[t].result))
           /\ SizeBounded(Sentences(req[t].raw), Get(res[t].result))

\* What the documents say, read off their pages: the line in which a chunk
\* text begins.
StartLineWritten(text) ==
    CASE text = "a2" -> 2
      [] OTHER -> 1

\* the lines of pages 1..page of a document, the last page up to a line
RECURSIVE LinesUpTo(_, _, _)
LinesUpTo(d, page, line) ==
    IF page = 1 THEN SubSeq(Pages(d)[1].lines, 1, line)
    ELSE LinesUpTo(d, page - 1, Len(Pages(d)[page - 1].lines))
         \o SubSeq(Pages(d)[page].lines, 1, line)

\* a heading: more than 5 and fewer than 100 characters, all upper-case
IsHeadingLine(line) == line.n > 5 /\ line.n < 100 /\ line.upper

\* the most recent heading at or before the place, the default without one
SectionWritten(d, page, line) ==
    LET hs == SelectSeq(LinesUpTo(d, page, line), IsHeadingLine)
    IN  IF hs = <<>> THEN "General" ELSE hs[Len(hs)].s

\* C26: the section of every chunk of the engine's list is the most recent
\* heading up to the chunk in its document, carried over the pages without
\* a heading, and the default label when there is none.
C26_SectionIsLastHeading ==
    \A i \in 1..Len(chunks) :
        chunks[i].section =
            SectionWritten(chunks[i].filename, chunks[i].page_number,
                           StartLineWritten(chunks[i].text))

\* ------------------------------------------- claims on the frame of query
\* thread t, serving a query of the orchestrator, takes a step
QueryMoves(t) ==
    /\ req[t].op \in OrchestratorQueries \/ req'[t].op \in OrchestratorQueries
    /\ <<pc[t], li[t], hits[t]>> # <<pc'[t], li'[t], hits'[t]>>

\* C27: no step of a query call, from the call to its return or failure,
\* changes the chunk list, a chunk's embedding, the embedding matrix or
\* is_initialized.
C27_QueryIsReadOnly ==
    [][\A t \in Threads : QueryMoves(t) => UNCHANGED <<chunks, embeddings, is_initialized>>]_vars

\* a query has failed on a ready orchestrator whose index holds a corpus
C27_Witness ==
    /\ is_initialized /\ CorpusConsistent(chunks, embeddings)
    /\ \E t \in Threads :
           /\ Done(t) /\ req[t].op \in OrchestratorQueries
           /\ res[t].status \in {"KeyError", "IndexError", "SimilarityError", "IndexNotBuilt"}

\* C28: two generate_response calls without an API key (two fallback runs)
\* over the same ranked chunks return the same decision, amount,
\* justification and clause_mapping, whatever their query texts.
C28_FallbackIgnoresQuery ==
    \A t, u \in Threads :
        (GenerateDone(t) /\ GenerateDone(u) /\ ~api_key /\ res[t].hits = res[u].hits)
        => Get(res[t].result) = Get(res[u].result)

\* two fallback runs over the same four chunks, one with a blank query text
\* and one with a word
C28_Witness ==
    /\ ~api_key
    /\ GenerateDone("t1") /\ GenerateDone("t2")
    /\ req["t1"].q = <<" ", "a">> /\ req["t2"].q = <<>>
    /\ Len(res["t1"].hits) = 4 /\ res["t1"].hits = res["t2"].hits

\* ---------------------------------------------- claims on the /query API
\* a request to the API has been answered
ApiDone(t) == Done(t) /\ req[t].op = "api_query"

\* the hits are what a search over the corpus of document d alone returns
\* for a query with top_k = 5: all its chunks (it has fewer than 5), each with
\* the score of its own text
HitsComeFrom(t, d) ==
    /\ Len(res[t].hits) = Len(extract_text_from_pdf(d))
    /\ \A i \in 1..Len(res[t].hits) :
           /\ res[t].hits[i].chunk.filename = d
           /\ res[t].hits[i].score = ScoreOf(t, res[t].hits[i].chunk)

\* C29: a request to the /query API that names policy_path P and is answered
\* with a result was answered from the corpus of P, and a request that names
\* a document that cannot be processed is answered with an error, whatever
\* other requests run at the same time.
C29_AnsweredFromNamedDocument ==
    \A t \in Threads :
        ApiDone(t)
        => /\ res[t].status = "ok" => HitsComeFrom(t, req[t].doc)
           /\ ~Readable(req[t].doc) => res[t].status # "ok"

\* ------------------------------------- claims on the history of the Flask app
\* thread t, serving process_query, is at the append with the result of its
\* query, and the step appends the entry of that query and nothing else
AppendsOwnEntry(t) ==
    /\ req[t].op = "process_query" /\ pc[t] = "append_history"
    /\ ~IsNone(res[t].result)
    /\ Len(query_history') = Len(query_history) + 1
    /\ SubSeq(query_history', 1, Len(query_history)) = query_history
    /\ query_history'[Len(query_history')].query = req[t].q
    /\ query_history'[Len(query_history')].result = Get(res[t].result)

\* C30: in the Flask front end the history changes only in the step in which
\* a process_query request whose query returned a result appends its one
\* entry.  A request comes to that step once, from its query, and from it
\* goes on to answer with the result; a request that ends with an error
\* (nothing loaded, blank query, the query raised) ends before that step,
\* and ends without a change of the history.
C30_OnlyResultsChangeHistory ==
    [][/\ query_history' # query_history => \E t \in Threads : AppendsOwnEntry(t)
       /\ \A t \in Threads :
              (req'[t].op = "process_query" /\ pc'[t] # pc[t])
              => /\ pc'[t] = "append_history" => pc[t] \in {"collect", "generate"}
                 /\ pc[t] = "append_history" => pc'[t] = "trim_history" /\ AppendsOwnEntry(t)
                 /\ (pc'[t] = "done" /\ res'[t].status = "ok")
                    => pc[t] = "trim_history" /\ res'[t].result = res[t].result
                 /\ (pc'[t] = "done" /\ res'[t].status # "ok")
                    => /\ pc[t] \in {"idle", "search_guard", "similarities", "collect",
                                      "generate"}
                       /\ UNCHANGED query_history]_vars

\* a Flask query raised on a loaded document and the history is still empty
C30_Witness ==
    /\ front = "flask" /\ query_history = <<>> /\ ~IsNone(current_document)
    /\ \E t \in Threads :
           /\ Done(t) /\ req[t].op = "process_query"
           /\ res[t].status \in {"KeyError", "IndexError", "SimilarityError", "IndexNotBuilt"}
====
